---- MODULE Spec2Model ----
(***************************************************************************)
(* Model of the persisted watchlist of tMovies: the WatchlistProvider      *)
(* React component (context/watchlistContext.tsx) and the localStorage     *)
(* helpers of utils/watchlist.ts.                                          *)
(*                                                                         *)
(* React is modelled by what it does to this component: a state hook holds *)
(* the committed watchlistItems that every closure of a render reads;      *)
(* setWatchlistItems appends an update to the hook's queue; a render       *)
(* applies the queued updates in order and commits; passive effects run    *)
(* after the commit, all of them in one flush, in declaration order.       *)
(***************************************************************************)
EXTENDS Integers, Sequences, FiniteSets, TLC

VARIABLES
  watchlistItems,   \* the committed state of useState (what closures read)
  queue,            \* updates passed to setWatchlistItems, not yet rendered
  pendingEffects,   \* passive effects scheduled by the last commit
  phase,            \* "mounting" | "loading" | "hydrated", or "crashed"
                    \* once an error thrown in an effect unmounted the tree
  localStorage,     \* the durable store: key -> stored text
  now,              \* the wall clock read by new Date()
  lastSave,         \* outcome of the last saveWatchlist call of the session
  console,          \* the console.error messages of the last effect flush
  prevSession,      \* what the previous session ended with, kept until
                    \* this session is hydrated
  readText,         \* what localStorage.getItem gave the load effect of
                    \* this session, kept until the hydrated collection
                    \* has been saved
  available,        \* whether the host lets this session use localStorage
  reloads           \* page reloads so far

vars == <<watchlistItems, queue, pendingEffects, phase, localStorage, now,
          lastSave, console, prevSession, readText, available, reloads>>

----------------------------------------------------------------------------
(* Bounds *)

MaxItems == 3
MaxQueue == 2
MaxClock == 1
Quota == 2
MaxReloads == 1

----------------------------------------------------------------------------
(* JavaScript values *)

JStr(s) == [type |-> "string", s |-> s, n |-> 0]
JNum(k) == [type |-> "number", s |-> "", n |-> k]
Undefined == [type |-> "undefined", s |-> "", n |-> 0]
JNull == [type |-> "null", s |-> "", n |-> 0]
JBigInt(k) == [type |-> "bigint", s |-> "", n |-> k]

\* typeof v === "string"
IsString(v) == v.type = "string"

\* ToBoolean: "", 0, undefined and null are falsy
Truthy(v) ==
  CASE v.type = "string" -> v.s # ""
    [] v.type = "number" -> v.n # 0
    [] v.type = "bigint" -> v.n # 0
    [] OTHER -> FALSE

\* a || b
Or(a, b) == IF Truthy(a) THEN a ELSE b

\* Number-to-string of the ids the model uses
NumStr(k) ==
  CASE k = 1 -> "1"
    [] k = 7 -> "7"
    [] k = 42 -> "42"

\* String(v)
String(v) ==
  CASE v.type = "string" -> v
    [] v.type = "number" -> JStr(NumStr(v.n))
    [] v.type = "bigint" -> JStr(NumStr(v.n))
    [] v.type = "undefined" -> JStr("undefined")
    [] v.type = "null" -> JStr("null")

\* An object is a function from its own keys to values; o.f of a missing
\* key is undefined.
Get(o, f) == IF f \in DOMAIN o THEN o[f] ELSE Undefined

EmptyObj == [f \in {} |-> Undefined]

\* new Date().toISOString() at clock value t
TimeStr ==
  << "2024-01-01T00:00:00.000Z", "2024-01-01T00:00:00.001Z",
     "2024-01-01T00:00:00.002Z", "2024-01-01T00:00:00.003Z",
     "2024-01-01T00:00:00.004Z", "2024-01-01T00:00:00.005Z" >>

toISOString(t) == JStr(TimeStr[t + 1])

----------------------------------------------------------------------------
(* JSON *)

JArr(elems) == [t |-> "array", elems |-> elems, o |-> EmptyObj, v |-> Undefined]
JObj(o) == [t |-> "object", elems |-> <<>>, o |-> o, v |-> Undefined]
JPrim(v) == [t |-> "primitive", elems |-> <<>>, o |-> EmptyObj, v |-> v]

\* Stored texts: a JSON text is modelled by the value it denotes.
NoItem == [kind |-> "null", val |-> JPrim(JNull)]        \* getItem -> null
EmptyText == [kind |-> "empty", val |-> JPrim(JNull)]    \* ""
Garbage == [kind |-> "garbage", val |-> JPrim(JNull)]    \* not JSON
JsonText(val) == [kind |-> "json", val |-> val]

\* No text: getItem has not returned in this session
NotRead == [kind |-> "none", val |-> JPrim(JNull)]

\* JSON.stringify of one item omitting every falsy value
StringifyItem_OmitsFalsy(item) ==
  JObj([f \in {g \in DOMAIN item : Truthy(item[g])} |-> item[f]])

\* JSON.stringify of one item: keys whose value is undefined are omitted
StringifyItem(item) ==
  JObj([f \in {g \in DOMAIN item : item[g] # Undefined} |-> item[f]])

\* JSON.stringify(items)
JSONstringify(items) ==
  JsonText(JArr([i \in 1..Len(items) |-> StringifyItem(items[i])]))

\* JSON.stringify throws a TypeError on a BigInt value
Serializable(items) ==
  \A i \in 1..Len(items) : \A f \in DOMAIN items[i] : items[i][f].type # "bigint"

----------------------------------------------------------------------------
(* utils/watchlist.ts *)

STORAGE_KEY == "tmovies_watchlist"

\* Another feature's key in the same localStorage
OTHER_KEY == "theme"

\* The callback of data.every in validateWatchlistData, on one element:
\* "throw" when reading item.id of null raises a TypeError.
ValidItem(e) ==
  IF e.t = "primitive"
  THEN IF e.v.type \in {"null", "undefined"} THEN "throw" ELSE "false"
  ELSE LET item == e.o
       IN IF /\ IsString(Get(item, "id"))
             /\ IsString(Get(item, "category"))
             /\ (Get(item, "category") = JStr("movie") \/ Get(item, "category") = JStr("tv"))
             /\ IsString(Get(item, "title"))
          THEN "true"
          ELSE "false"

\* Array.prototype.every: left to right, stops at the first false
RECURSIVE Every(_)
Every(elems) ==
  IF elems = <<>>
  THEN "true"
  ELSE LET r == ValidItem(Head(elems))
       IN IF r = "true" THEN Every(Tail(elems)) ELSE r

\* validateWatchlistData(data): "true", "false" or "throw"
validateWatchlistData(data) ==
  IF data.t # "array" THEN "false" ELSE Every(data.elems)

\* The array the program holds after JSON.parse of a validated payload
ParsedItems(data) == [i \in 1..Len(data.elems) |-> data.elems[i].o]

LoadError == "Failed to load watchlist:"
QuotaError == "Watchlist storage full. Please remove some items."
SaveError == "Failed to save watchlist:"

\* The try block of getWatchlist keeping the elements that pass the check
\* when the validation returns false
TryGetWatchlist_Filtering(store, access) ==
  LET saved == store[STORAGE_KEY]
  IN IF access # "ok"
     THEN [outcome |-> "throw", items |-> <<>>]
     ELSE IF saved.kind \in {"null", "empty"}
     THEN [outcome |-> "return", items |-> <<>>]
     ELSE IF saved.kind = "garbage"
     THEN [outcome |-> "throw", items |-> <<>>]
     ELSE LET v == validateWatchlistData(saved.val)
          IN IF v = "throw"
             THEN [outcome |-> "throw", items |-> <<>>]
             ELSE IF v = "true"
             THEN [outcome |-> "return", items |-> ParsedItems(saved.val)]
             ELSE IF saved.val.t = "array"
             THEN [outcome |-> "return",
                   items |-> ParsedItems(JArr(SelectSeq(saved.val.elems,
                                LAMBDA e : ValidItem(e) = "true")))]
             ELSE [outcome |-> "return", items |-> <<>>]

\* The try block of getWatchlist returning whatever JSON.parse gave, without
\* the call of validateWatchlistData
TryGetWatchlist_Unvalidated(store, access) ==
  LET saved == store[STORAGE_KEY]
  IN IF access # "ok"
     THEN [outcome |-> "throw", items |-> <<>>]
     ELSE IF saved.kind \in {"null", "empty"}
     THEN [outcome |-> "return", items |-> <<>>]
     ELSE IF saved.kind = "garbage"
     THEN [outcome |-> "throw", items |-> <<>>]
     ELSE [outcome |-> "return", items |-> ParsedItems(saved.val)]

\* The try block of getWatchlist: it returns an array or throws. access is
\* the outcome of localStorage.getItem: "ok" or the name of the error it
\* throws.
TryGetWatchlist(store, access) ==
  LET saved == store[STORAGE_KEY]
  IN IF access # "ok"
     THEN [outcome |-> "throw", items |-> <<>>]
     ELSE IF saved.kind \in {"null", "empty"}
     THEN [outcome |-> "return", items |-> <<>>]
     ELSE IF saved.kind = "garbage"
     THEN [outcome |-> "throw", items |-> <<>>]
     ELSE LET v == validateWatchlistData(saved.val)
          IN IF v = "throw"
             THEN [outcome |-> "throw", items |-> <<>>]
             ELSE IF v = "true"
             THEN [outcome |-> "return", items |-> ParsedItems(saved.val)]
             ELSE [outcome |-> "return", items |-> <<>>]

\* getWatchlist with only JSON.parse inside the try block: an error raised
\* by the validation leaves the function
getWatchlist_ValidateOutsideTry(store, access) ==
  LET t == TryGetWatchlist(store, access)
      saved == store[STORAGE_KEY]
  IN IF t.outcome = "throw"
     THEN IF access = "ok" /\ saved.kind = "json"
          THEN [items |-> <<>>, logged |-> "", thrown |-> TRUE]
          ELSE [items |-> <<>>, logged |-> LoadError, thrown |-> FALSE]
     ELSE [items |-> t.items, logged |-> "", thrown |-> FALSE]

\* getWatchlist(): the returned array, the message logged, if any, and
\* whether an error leaves the function
getWatchlist(store, access) ==
  LET t == TryGetWatchlist(store, access)
  IN IF t.outcome = "throw"
     THEN [items |-> <<>>, logged |-> LoadError, thrown |-> FALSE]
     ELSE [items |-> t.items, logged |-> "", thrown |-> FALSE]

\* The try block of saveWatchlist: the name of the error thrown by
\* JSON.stringify or by localStorage.setItem, or "ok". access is the outcome
\* of localStorage.setItem.
TrySaveWatchlist(items, access) ==
  IF ~Serializable(items) THEN "TypeError" ELSE access

\* saveWatchlist without the test of error.name
saveWatchlist_Unclassified(store, items, access) ==
  LET t == TrySaveWatchlist(items, access)
  IN IF t = "ok"
     THEN [store |-> [store EXCEPT ![STORAGE_KEY] = JSONstringify(items)],
           outcome |-> t, logged |-> "", thrown |-> FALSE]
     ELSE [store |-> store, outcome |-> t, logged |-> SaveError, thrown |-> FALSE]

\* saveWatchlist rethrowing the errors that are not QuotaExceededError
saveWatchlist_Rethrow(store, items, access) ==
  LET t == TrySaveWatchlist(items, access)
  IN IF t = "ok"
     THEN [store |-> [store EXCEPT ![STORAGE_KEY] = JSONstringify(items)],
           outcome |-> t, logged |-> "", thrown |-> FALSE]
     ELSE IF t = "QuotaExceededError"
     THEN [store |-> store, outcome |-> t, logged |-> QuotaError, thrown |-> FALSE]
     ELSE [store |-> store, outcome |-> t, logged |-> SaveError, thrown |-> TRUE]

\* saveWatchlist calling localStorage.clear() before setItem: the other
\* keys are removed
saveWatchlist_ClearFirst(store, items, access) ==
  LET t == TrySaveWatchlist(items, access)
  IN IF t = "ok"
     THEN [store |-> [k \in DOMAIN store |->
                        IF k = STORAGE_KEY THEN JSONstringify(items) ELSE NoItem],
           outcome |-> t, logged |-> "", thrown |-> FALSE]
     ELSE IF t = "QuotaExceededError"
     THEN [store |-> store, outcome |-> t, logged |-> QuotaError, thrown |-> FALSE]
     ELSE [store |-> store, outcome |-> t, logged |-> SaveError, thrown |-> FALSE]

\* saveWatchlist(items): the store afterwards, the message logged, if any,
\* and whether an error leaves the function
saveWatchlist(store, items, access) ==
  LET t == TrySaveWatchlist(items, access)
  IN IF t = "ok"
     THEN [store |-> [store EXCEPT ![STORAGE_KEY] = JSONstringify(items)],
           outcome |-> t, logged |-> "", thrown |-> FALSE]
     ELSE IF t = "QuotaExceededError"
     THEN [store |-> store, outcome |-> t, logged |-> QuotaError, thrown |-> FALSE]
     ELSE [store |-> store, outcome |-> t, logged |-> SaveError, thrown |-> FALSE]

\* localStorage.getItem(STORAGE_KEY): throws when the host denies storage
getItemOutcome(usable) == IF usable THEN "ok" ELSE "SecurityError"

\* localStorage.setItem(STORAGE_KEY, text): throws when the host denies
\* storage, and when the text of more than Quota items does not fit
setItemOutcome(usable, items) ==
  IF ~usable THEN "SecurityError"
  ELSE IF Len(items) > Quota THEN "QuotaExceededError"
  ELSE "ok"

----------------------------------------------------------------------------
(* context/watchlistContext.tsx *)

\* The fields of IWatchlistItem
Fields ==
  { "id", "category", "poster_path", "title", "original_title", "name",
    "overview", "backdrop_path", "addedAt" }

\* The newItem literal of addToWatchlist
NewItem(movie, t) ==
  [ id |-> String(Get(movie, "id")),
    category |-> Or(Get(movie, "category"), JStr("movie")),
    poster_path |-> Get(movie, "poster_path"),
    title |-> Or(Or(Get(movie, "original_title"), Get(movie, "name")), Get(movie, "title")),
    original_title |-> Or(Get(movie, "original_title"), JStr("")),
    name |-> Or(Get(movie, "name"), JStr("")),
    overview |-> Get(movie, "overview"),
    backdrop_path |-> Get(movie, "backdrop_path"),
    addedAt |-> toISOString(t) ]

\* items.some((item) => item.id === idString)
SomeId(items, idString) ==
  \E i \in 1..Len(items) : Get(items[i], "id") = idString

\* isInWatchlist comparing item.id with the id as passed, without String(id)
isInWatchlist_NoString(id) == SomeId(watchlistItems, id)

\* isInWatchlist(id), memoized on the committed watchlistItems
isInWatchlist(id) == SomeId(watchlistItems, String(id))

\* The filter with === in place of !==
FilterOut_Inverted(prev, idString) ==
  SelectSeq(prev, LAMBDA item : Get(item, "id") = idString)

\* prev.filter((item) => item.id !== idString)
RECURSIVE FilterOut(_, _)
FilterOut(prev, idString) ==
  IF prev = <<>>
  THEN <<>>
  ELSE IF Get(Head(prev), "id") # idString
       THEN <<Head(prev)>> \o FilterOut(Tail(prev), idString)
       ELSE FilterOut(Tail(prev), idString)

\* The updates handed to setWatchlistItems
PrependUpdate(newItem) == [op |-> "prepend", item |-> newItem]
FilterUpdate(idString) == [op |-> "filter", id |-> idString]
SetUpdate(value, by) == [op |-> "set", value |-> value, by |-> by]

\* The updates with a remove done by prev.splice(index) without a count:
\* the first item of the id and every item behind it go
ApplyUpdate_SpliceAll(prev, u) ==
  CASE u.op = "prepend" -> <<u.item>> \o prev
    [] u.op = "filter" ->
         IF SomeId(prev, u.id)
         THEN LET index == CHOOSE i \in 1..Len(prev) :
                             /\ Get(prev[i], "id") = u.id
                             /\ \A j \in 1..(i - 1) : Get(prev[j], "id") # u.id
              IN SubSeq(prev, 1, index - 1)
         ELSE prev
    [] u.op = "set" -> u.value

\* The updates with [...prev, newItem] in place of [newItem, ...prev]
ApplyUpdate_Append(prev, u) ==
  CASE u.op = "prepend" -> prev \o <<u.item>>
    [] u.op = "filter" -> FilterOut(prev, u.id)
    [] u.op = "set" -> u.value

\* One queued update applied to the state it finds
ApplyUpdate(prev, u) ==
  CASE u.op = "prepend" -> <<u.item>> \o prev
    [] u.op = "filter" -> FilterOut(prev, u.id)
    [] u.op = "set" -> u.value

\* A render applies the queued updates in the order they were enqueued
RECURSIVE ApplyQueue(_, _)
ApplyQueue(prev, q) ==
  IF q = <<>> THEN prev ELSE ApplyQueue(ApplyUpdate(prev, Head(q)), Tail(q))

----------------------------------------------------------------------------
(* Inputs: the candidates collaborators pass to addToWatchlist, the ids they
   pass to removeFromWatchlist, and what localStorage holds at start *)

\* { id: 1, category: "movie", title: "Inception" }
Inception ==
  [id |-> JNum(1), category |-> JStr("movie"), title |-> JStr("Inception")]

\* A TV show: name instead of original_title
Show42 ==
  [ id |-> JStr("42"), category |-> JStr("tv"), poster_path |-> JStr("/p42.jpg"),
    name |-> JStr("Dark"), overview |-> JStr("caves"),
    backdrop_path |-> JStr("/b42.jpg") ]

\* A candidate with no category and neither original_title nor name nor
\* title
Untitled ==
  [id |-> JNum(42), poster_path |-> JStr("/p42.jpg"), overview |-> JStr("")]

\* A candidate whose category is neither "movie" nor "tv"
Book ==
  [ id |-> JNum(7), category |-> JStr("book"), poster_path |-> JStr("/p7.jpg"),
    original_title |-> JStr("Dune"), overview |-> JStr("sand"),
    backdrop_path |-> JStr("/b7.jpg") ]

\* A candidate one of whose fields holds a BigInt
Huge ==
  [ id |-> JStr("7"), category |-> JStr("movie"), title |-> JStr("Big"),
    overview |-> JBigInt(7) ]

Movies == {Inception, Show42, Untitled, Book}

\* The candidates of a session in which a collaborator passes a BigInt
UnserializableMovies == {Inception, Show42, Book, Huge}

IdInputs == {JNum(1), JStr("1"), JNum(42), JStr("42"), JStr("7")}

\* The canonical ids of the model
Ids == {"1", "7", "42"}

\* Payloads found under STORAGE_KEY at process start
ValidPayload == JSONstringify(<<NewItem(Show42, 0), NewItem(Inception, 0)>>)
DuplicatePayload == JSONstringify(<<NewItem(Show42, 0), NewItem(Show42, 0)>>)
InvalidPayload == JSONstringify(<<NewItem(Book, 0)>>)


\* "[null]"
NullElementPayload == JsonText(JArr(<<JPrim(JNull)>>))

\* One object instead of an array of objects
NotArrayPayload == JsonText(StringifyItem(NewItem(Show42, 0)))

\* A valid element followed by elements that have no title, a number for
\* id, and no id
MixedPayload ==
  JsonText(JArr(<< StringifyItem(NewItem(Show42, 0)),
                   StringifyItem(NewItem(Untitled, 0)),
                   StringifyItem([NewItem(Inception, 0) EXCEPT !.id = JNum(1)]),
                   StringifyItem([NewItem(Inception, 0) EXCEPT !.id = Undefined]) >>))

InitialPayloads ==
  { NoItem, EmptyText, Garbage, ValidPayload, DuplicatePayload, InvalidPayload,
    NullElementPayload, NotArrayPayload, MixedPayload }

OtherText == [kind |-> "raw", val |-> JPrim(JStr("Dark"))]

----------------------------------------------------------------------------
(* The state machine *)

\* The provider's first render has committed: useState([]) and both effects
\* scheduled.
Init ==
  /\ watchlistItems = <<>>
  /\ queue = <<>>
  /\ pendingEffects = {"load", "save"}
  /\ phase = "mounting"
  /\ \E p \in InitialPayloads :
       localStorage = [k \in {STORAGE_KEY, OTHER_KEY} |->
                         IF k = STORAGE_KEY THEN p ELSE OtherText]
  /\ now = 0
  /\ lastSave = "none"
  /\ console = <<>>
  /\ prevSession = [settled |-> FALSE, items |-> <<>>]
  /\ readText = NotRead
  /\ available \in BOOLEAN
  /\ reloads = 0

\* The provider is mounted: no effect has thrown
Mounted == phase # "crashed"

\* Room for one more update from a handler
CanEnqueue == Mounted /\ Len(queue) < MaxQueue

\* addToWatchlist(movie)
addToWatchlist(movie) ==
  LET movieId == String(Get(movie, "id"))
  IN /\ CanEnqueue
     /\ Len(ApplyQueue(watchlistItems, queue)) < MaxItems
     /\ IF SomeId(watchlistItems, movieId)
        THEN UNCHANGED queue
        ELSE queue' = Append(queue, PrependUpdate(NewItem(movie, now)))
     /\ UNCHANGED <<watchlistItems, pendingEffects, phase, localStorage, now,
                    lastSave, console, prevSession, readText, available, reloads>>

\* removeFromWatchlist(id)
removeFromWatchlist(id) ==
  LET idString == String(id)
  IN /\ CanEnqueue
     /\ queue' = Append(queue, FilterUpdate(idString))
     /\ UNCHANGED <<watchlistItems, pendingEffects, phase, localStorage, now,
                    lastSave, console, prevSession, readText, available, reloads>>

\* WatchlistButton.handleClick for the button of movie: inWatchlist is
\* isInWatchlist(movie.id) of the render the button was drawn in
handleClick(movie) ==
  LET inWatchlist == isInWatchlist(Get(movie, "id"))
  IN IF inWatchlist
     THEN removeFromWatchlist(Get(movie, "id"))
     ELSE addToWatchlist(movie)

\* clearWatchlist dropping the first item only
clearWatchlist_DropFirst ==
  /\ CanEnqueue
  /\ queue' = Append(queue, SetUpdate(SubSeq(watchlistItems, 2, Len(watchlistItems)), "clear"))
  /\ UNCHANGED <<watchlistItems, pendingEffects, phase, localStorage, now,
                 lastSave, console, prevSession, readText, available, reloads>>

\* clearWatchlist()
clearWatchlist ==
  /\ CanEnqueue
  /\ queue' = Append(queue, SetUpdate(<<>>, "clear"))
  /\ UNCHANGED <<watchlistItems, pendingEffects, phase, localStorage, now,
                 lastSave, console, prevSession, readText, available, reloads>>

\* The load effect: getWatchlist() then setWatchlistItems(saved)
LoadEffect(q, access) ==
  LET r == getWatchlist(localStorage, access)
  IN IF r.thrown
     THEN [queue |-> q, logged |-> r.logged, thrown |-> TRUE]
     ELSE [queue |-> Append(q, SetUpdate(r.items, "load")), logged |-> r.logged,
           thrown |-> FALSE]

\* The save effect with an empty dependency array: its closure keeps the
\* watchlistItems of the first render
SaveEffect_FirstRender(access) == saveWatchlist(localStorage, <<>>, access)

\* The save effect: saveWatchlist(watchlistItems), with the watchlistItems
\* of the render that scheduled it
SaveEffect(access) == saveWatchlist(localStorage, watchlistItems, access)

\* React flushes the passive effects of the last commit, in declaration
\* order: the load effect (on mount only), then the save effect. An error
\* thrown by an effect is not caught by anything in the tree: React unmounts
\* it.
FlushPassiveEffects ==
  /\ Mounted
  /\ pendingEffects # {}
  /\ LET get == getItemOutcome(available)
         set == setItemOutcome(available, watchlistItems)
         l == IF "load" \in pendingEffects
              THEN LoadEffect(queue, get)
              ELSE [queue |-> queue, logged |-> "", thrown |-> FALSE]
         s == SaveEffect(set)
     IN /\ queue' = l.queue
        /\ localStorage' = s.store
        /\ lastSave' = s.outcome
        /\ console' = (IF l.logged # "" THEN <<l.logged>> ELSE <<>>)
                         \o (IF s.logged # "" THEN <<s.logged>> ELSE <<>>)
        /\ phase' = IF l.thrown \/ s.thrown THEN "crashed"
                    ELSE IF phase = "mounting" THEN "loading" ELSE phase
  /\ pendingEffects' = {}
  /\ readText' = IF "load" \in pendingEffects
                 THEN IF getItemOutcome(available) = "ok"
                      THEN localStorage[STORAGE_KEY]
                      ELSE NotRead
                 ELSE IF phase = "hydrated" THEN NotRead ELSE readText
  /\ UNCHANGED <<watchlistItems, now, prevSession, available, reloads>>

\* A render after which both effects run, as when the load effect has no
\* dependency array
Render_LoadEveryRender ==
  /\ Mounted
  /\ queue # <<>>
  /\ pendingEffects = {}
  /\ watchlistItems' = ApplyQueue(watchlistItems, queue)
  /\ queue' = <<>>
  /\ pendingEffects' = {"load", "save"}
  /\ phase' = IF phase = "loading" THEN "hydrated" ELSE phase
  /\ prevSession' = [settled |-> FALSE, items |-> <<>>]
  /\ UNCHANGED <<localStorage, now, lastSave, console, readText, available, reloads>>

\* A render after which the save effect does not run
Render_NoSaveEffect ==
  /\ Mounted
  /\ queue # <<>>
  /\ pendingEffects = {}
  /\ watchlistItems' = ApplyQueue(watchlistItems, queue)
  /\ queue' = <<>>
  /\ pendingEffects' = {}
  /\ phase' = IF phase = "loading" THEN "hydrated" ELSE phase
  /\ prevSession' = [settled |-> FALSE, items |-> <<>>]
  /\ UNCHANGED <<localStorage, now, lastSave, console, readText, available, reloads>>

\* React renders the provider again: the queued updates are applied in
\* order, the result is committed, and the save effect is scheduled because
\* its dependency is a new array.
Render ==
  /\ Mounted
  /\ queue # <<>>
  /\ pendingEffects = {}
  /\ watchlistItems' = ApplyQueue(watchlistItems, queue)
  /\ queue' = <<>>
  /\ pendingEffects' = {"save"}
  /\ phase' = IF phase = "loading" THEN "hydrated" ELSE phase
  /\ prevSession' = [settled |-> FALSE, items |-> <<>>]
  /\ UNCHANGED <<localStorage, now, lastSave, console, readText, available, reloads>>

\* Time passes
Tick ==
  /\ now < MaxClock
  /\ now' = now + 1
  /\ UNCHANGED <<watchlistItems, queue, pendingEffects, phase, localStorage,
                 lastSave, console, prevSession, readText, available, reloads>>

\* Whether the session has nothing left to do and its last write succeeded
Settled ==
  phase = "hydrated" /\ queue = <<>> /\ pendingEffects = {} /\ lastSave = "ok"

\* The page is reloaded: the process ends and a new one mounts the provider
\* over the same localStorage.
Reload ==
  /\ reloads < MaxReloads
  /\ reloads' = reloads + 1
  /\ watchlistItems' = <<>>
  /\ queue' = <<>>
  /\ pendingEffects' = {"load", "save"}
  /\ phase' = "mounting"
  /\ lastSave' = "none"
  /\ console' = <<>>
  /\ prevSession' = IF Settled
                    THEN [settled |-> TRUE, items |-> watchlistItems]
                    ELSE [settled |-> FALSE, items |-> <<>>]
  /\ readText' = NotRead
  /\ available' \in BOOLEAN
  /\ UNCHANGED <<localStorage, now>>

Next ==
  \/ \E movie \in Movies : addToWatchlist(movie)
  \/ \E id \in IdInputs : removeFromWatchlist(id)
  \/ clearWatchlist
  \/ FlushPassiveEffects
  \/ Render
  \/ Tick
  \/ Reload

Spec == Init /\ [][Next]_vars

\* One session at one instant: the handlers, the renders and the effects,
\* without the clock and without reloads
NextSession ==
  \/ \E movie \in Movies : addToWatchlist(movie)
  \/ \E id \in IdInputs : removeFromWatchlist(id)
  \/ clearWatchlist
  \/ FlushPassiveEffects
  \/ Render

SpecSession == Init /\ [][NextSession]_vars

\* One session in which the collection is changed through the buttons only:
\* every call of addToWatchlist and removeFromWatchlist is a click
NextButton ==
  \/ \E movie \in Movies : handleClick(movie)
  \/ clearWatchlist
  \/ FlushPassiveEffects
  \/ Render

SpecButton == Init /\ [][NextButton]_vars

\* One session that starts on a payload getWatchlist cannot use: a text
\* JSON.parse rejects, or a value validateWatchlistData does not accept
InitCorrupt ==
  /\ Init
  /\ LET saved == localStorage[STORAGE_KEY]
     IN \/ saved.kind = "garbage"
        \/ saved.kind = "json" /\ validateWatchlistData(saved.val) # "true"

SpecCorrupt == InitCorrupt /\ [][NextSession]_vars

\* Sessions at one instant with the two well-formed candidates and reloads
NextWellFormed ==
  \/ \E movie \in {Inception, Show42} : addToWatchlist(movie)
  \/ \E id \in {JNum(1), JStr("42")} : removeFromWatchlist(id)
  \/ clearWatchlist
  \/ FlushPassiveEffects
  \/ Render
  \/ Reload

SpecWellFormed == Init /\ [][NextWellFormed]_vars

\* One session with two well-formed candidates, in which React does what it
\* has scheduled: it flushes the passive effects of a commit and renders the
\* updates it was handed
NextHydration ==
  \/ \E movie \in {Inception, Show42} : addToWatchlist(movie)
  \/ \E id \in {JNum(1), JStr("42")} : removeFromWatchlist(id)
  \/ clearWatchlist
  \/ FlushPassiveEffects
  \/ Render

FairHydration ==
  /\ Init
  /\ [][NextHydration]_vars
  /\ WF_vars(FlushPassiveEffects)
  /\ WF_vars(Render)

\* One session at one instant in which one of the candidates does not
\* serialize
NextUnserializable ==
  \/ \E movie \in UnserializableMovies : addToWatchlist(movie)
  \/ \E id \in IdInputs : removeFromWatchlist(id)
  \/ clearWatchlist
  \/ FlushPassiveEffects
  \/ Render

SpecUnserializable == Init /\ [][NextUnserializable]_vars

----------------------------------------------------------------------------
(* Vocabulary of the properties *)

\* The step is a render that commits the queued updates
RenderStep ==
  /\ queue # <<>>
  /\ pendingEffects = {}
  /\ queue' = <<>>
  /\ pendingEffects' = {"save"}

\* The step is a flush of the passive effects
FlushStep == pendingEffects # {} /\ pendingEffects' = {}

\* Positions of the items with a given id
ItemsWithId(items, idString) ==
  {i \in 1..Len(items) : Get(items[i], "id") = idString}

\* Two collections with the same items, field for field, in the same order
SameCollection(a, b) ==
  /\ Len(a) = Len(b)
  /\ \A i \in 1..Len(a) : \A f \in Fields : Get(a[i], f) = Get(b[i], f)

\* The durable store holds the text of an array of objects that reads back
\* as the given collection
StoreHolds(store, items) ==
  LET text == store[STORAGE_KEY]
  IN /\ text.kind = "json"
     /\ text.val.t = "array"
     /\ \A i \in 1..Len(text.val.elems) : text.val.elems[i].t = "object"
     /\ SameCollection(ParsedItems(text.val), items)

\* The canonical id of an input, computed from its type
CanonicalId(id) == IF id.type = "number" THEN NumStr(id.n) ELSE id.s

----------------------------------------------------------------------------
(* Properties *)

\* C1: the Store writes nothing to the durable store between process start
\* and the completion of hydration; the content found under the key at
\* start is still there when the loaded collection is committed.
C1_NoWriteBeforeHydration ==
  [][phase # "hydrated" => localStorage'[STORAGE_KEY] = localStorage[STORAGE_KEY]]_vars

\* C2: after hydration, once every queued update has been rendered, the save
\* effect has run and the last write succeeded, the durable store holds
\* exactly the in-memory collection, same items in the same order.
C2_DurableMatchesMemory ==
  Settled => StoreHolds(localStorage, watchlistItems)

\* C2 witness: a settled session holding two items, the newest one (id "7")
\* added during the session, since no payload that loads contains it
C2_Witness ==
  /\ Settled
  /\ Len(watchlistItems) = 2
  /\ watchlistItems[1].id = JStr("7")
  /\ localStorage[STORAGE_KEY] = JSONstringify(watchlistItems)

\* C3: a session that starts after a settled session, with localStorage
\* usable and no mutation before hydration, observes once hydrated exactly
\* the collection the previous session ended with.
C3_SurvivesReload ==
  [][(/\ RenderStep
      /\ phase = "loading"
      /\ prevSession.settled
      /\ available
      /\ Len(queue) = 1)
     => SameCollection(watchlistItems', prevSession.items)]_vars

\* C4: when a render commits a batch of add calls on a hydrated store, each
\* id added has exactly one item, and its addedAt is that of the first add
\* of the id.
C4_AddIdempotent ==
  [][(/\ RenderStep
      /\ phase = "hydrated"
      /\ \A i \in 1..Len(queue) : queue[i].op = "prepend")
     => \A i \in 1..Len(queue) :
          LET id == queue[i].item.id
              first == CHOOSE j \in 1..Len(queue) :
                         /\ queue[j].item.id = id
                         /\ \A k \in 1..(j - 1) : queue[k].item.id # id
          IN /\ Cardinality(ItemsWithId(watchlistItems', id)) = 1
             /\ \A k \in ItemsWithId(watchlistItems', id) :
                  watchlistItems'[k].addedAt = queue[first].item.addedAt]_vars

\* C5: no two items of the in-memory collection have the same id.
C5_UniqueIds ==
  \A i, j \in 1..Len(watchlistItems) :
    i # j => Get(watchlistItems[i], "id") # Get(watchlistItems[j], "id")

\* C6: a render that commits add calls with distinct ids that are not in the
\* collection yields the added items, the most recently added first,
\* followed by the previous items in their previous order: add(a) then add(b)
\* gives b, a and then the previous items.
C6_MostRecentFirst ==
  [][(/\ RenderStep
      /\ \A i \in 1..Len(queue) : queue[i].op = "prepend"
      /\ \A i \in 1..Len(queue) :
           /\ ItemsWithId(watchlistItems, queue[i].item.id) = {}
           /\ \A j \in 1..Len(queue) : i # j => queue[i].item.id # queue[j].item.id)
     => watchlistItems' =
          [i \in 1..Len(queue) |-> queue[Len(queue) + 1 - i].item] \o watchlistItems]_vars

\* C6 witness: hydrated with one item (id "1"), two adds of the distinct
\* absent ids "42" then "7" are queued for the next render
C6_Witness ==
  /\ phase = "hydrated"
  /\ pendingEffects = {}
  /\ Len(watchlistItems) = 1
  /\ watchlistItems[1].id = JStr("1")
  /\ queue = <<PrependUpdate(NewItem(Show42, now)), PrependUpdate(NewItem(Book, now))>>

\* C7: a render that commits remove(id) yields the collection without the
\* items whose id is String(id); the other items stay, unmodified and in the
\* same relative order, and nothing changes when no item has that id.
C7_RemoveFrame ==
  [][(/\ RenderStep
      /\ Len(queue) = 1
      /\ queue[1].op = "filter")
     => /\ watchlistItems' =
             SelectSeq(watchlistItems, LAMBDA item : Get(item, "id") # queue[1].id)
        /\ (ItemsWithId(watchlistItems, queue[1].id) = {}
              => watchlistItems' = watchlistItems)]_vars

\* C7 witness: remove has been called with the numeric id of the middle one
\* of three items
C7_Witness ==
  /\ phase = "hydrated"
  /\ pendingEffects = {}
  /\ Len(watchlistItems) = 3
  /\ queue = <<FilterUpdate(String(JNum(42)))>>
  /\ ItemsWithId(watchlistItems, JStr("42")) = {2}

\* C8: on a hydrated store, a render that commits one add makes has(id) true
\* and grows the length by exactly 1 if the id was absent; a render that
\* commits one remove makes has(id) false and shrinks the length by exactly
\* 1 if the id was present.
C8_AddRemoveEffect ==
  [][(/\ RenderStep
      /\ phase = "hydrated"
      /\ Len(queue) = 1)
     => /\ queue[1].op = "prepend" =>
             /\ SomeId(watchlistItems', queue[1].item.id)
             /\ (~SomeId(watchlistItems, queue[1].item.id)
                   => Len(watchlistItems') = Len(watchlistItems) + 1)
        /\ queue[1].op = "filter" =>
             /\ ~SomeId(watchlistItems', queue[1].id)
             /\ (SomeId(watchlistItems, queue[1].id)
                   => Len(watchlistItems') = Len(watchlistItems) - 1)]_vars

\* C9: has(id) is true exactly when the collection contains an item whose id
\* is the canonical string of id, for numeric and string inputs alike; with
\* an item of id "42", has(42) and has("42") are both true.
C9_HasCanonical ==
  /\ \A id \in IdInputs :
       isInWatchlist(id) <=>
         \E i \in 1..Len(watchlistItems) :
           /\ watchlistItems[i].id.type = "string"
           /\ watchlistItems[i].id.s = CanonicalId(id)
  /\ ItemsWithId(watchlistItems, JStr("42")) # {}
       => isInWatchlist(JNum(42)) /\ isInWatchlist(JStr("42"))

\* C9 witness: the store has just been hydrated from the payload that holds
\* an item of id "42", and has(42) is true
C9_Witness ==
  /\ phase = "hydrated"
  /\ watchlistItems = ParsedItems(ValidPayload.val)
  /\ watchlistItems[1].id = JStr("42")
  /\ isInWatchlist(JNum(42))

\* C10: a render whose last update is the one of clear() leaves the
\* in-memory collection empty whatever it held; and the save effect of an
\* empty hydrated collection, when its write succeeds, leaves the empty
\* collection in the durable store.
C10_ClearEmpties ==
  [][/\ (/\ RenderStep
         /\ queue[Len(queue)].op = "set"
         /\ queue[Len(queue)].by = "clear")
        => watchlistItems' = <<>>
     /\ (/\ FlushStep
         /\ phase = "hydrated"
         /\ watchlistItems = <<>>
         /\ lastSave' = "ok")
        => StoreHolds(localStorage', <<>>)]_vars

\* C10 witness: clear() has been called on a hydrated store of two items
\* whose durable copy holds the two items
C10_Witness ==
  /\ phase = "hydrated"
  /\ pendingEffects = {}
  /\ Len(watchlistItems) = 2
  /\ queue = <<SetUpdate(<<>>, "clear")>>
  /\ available
  /\ StoreHolds(localStorage, watchlistItems)

\* The step is the flush after mount, in which the load effect calls
\* getWatchlist
LoadStep == FlushStep /\ "load" \in pendingEffects

\* The update the load effect enqueued in this step
Loaded == queue'[Len(queue')]

\* The cases in which load() has nothing it may return: the store cannot be
\* read, the key is absent or empty, the text is not JSON, or the validation
\* does not return true
LoadFallsBack ==
  LET saved == localStorage[STORAGE_KEY]
  IN \/ ~available
     \/ saved.kind \in {"null", "empty", "garbage"}
     \/ saved.kind = "json" /\ validateWatchlistData(saved.val) # "true"

\* C11: load() never throws to its caller, the load effect: it always hands
\* an array to setWatchlistItems, and the empty one when the key is absent,
\* the read fails, the text does not parse, or the validation fails or
\* raises.
C11_LoadNeverThrows ==
  [][LoadStep =>
       /\ phase' # "crashed"
       /\ Len(queue') = Len(queue) + 1
       /\ Loaded.op = "set" /\ Loaded.by = "load"
       /\ LoadFallsBack => Loaded.value = <<>>]_vars

\* C11 witness: load() read "[null]", the validation raised a TypeError,
\* load() caught it, logged it and returned the empty array
C11_Witness ==
  /\ phase = "loading"
  /\ readText = NullElementPayload
  /\ console = <<LoadError>>
  /\ queue = <<SetUpdate(<<>>, "load")>>

\* An element that has a string id, a category equal to "movie" or "tv",
\* and a string title
Conforms(e) ==
  /\ e.t = "object"
  /\ "id" \in DOMAIN e.o /\ e.o["id"].type = "string"
  /\ "category" \in DOMAIN e.o /\ e.o["category"] \in {JStr("movie"), JStr("tv")}
  /\ "title" \in DOMAIN e.o /\ e.o["title"].type = "string"

\* The text is a JSON array whose elements all conform
ConformingArray(text) ==
  /\ text.kind = "json"
  /\ text.val.t = "array"
  /\ \A i \in 1..Len(text.val.elems) : Conforms(text.val.elems[i])

\* C12: load() is all-or-nothing: what it returns for the text it read is
\* the complete parsed sequence when the text is an array whose elements
\* all conform, and the empty collection otherwise, never a subset.
C12_AllOrNothing ==
  [][(LoadStep /\ available) =>
       Loaded.value =
         IF ConformingArray(localStorage[STORAGE_KEY])
         THEN [i \in 1..Len(localStorage[STORAGE_KEY].val.elems) |->
                 localStorage[STORAGE_KEY].val.elems[i].o]
         ELSE <<>>]_vars

\* C12 witness: load() read the array whose first element is valid and
\* whose other elements are not, and returned the empty array
C12_Witness ==
  /\ phase = "loading"
  /\ readText = MixedPayload
  /\ Conforms(readText.val.elems[1])
  /\ ~Conforms(readText.val.elems[2])
  /\ queue = <<SetUpdate(<<>>, "load")>>

\* C13: validate returns a boolean for every candidate: for the parsed text
\* load() read, true exactly when it is an array whose elements all conform,
\* and false otherwise, also when an element is null.
C13_ValidateBoolean ==
  readText.kind = "json" =>
    validateWatchlistData(readText.val) =
      IF ConformingArray(readText) THEN "true" ELSE "false"

\* C14 as stated: the in-memory outcome of every flush of the effects (the
\* committed collection, the has() results and what is handed to
\* setWatchlistItems) is the one the same flush has when every access to
\* the durable store fails, the load as well as the save.
C14_SameWhetherStorageFails ==
  [][FlushStep =>
       /\ phase' # "crashed"
       /\ watchlistItems' = watchlistItems
       /\ \A id \in IdInputs : isInWatchlist(id)' = isInWatchlist(id)
       /\ queue' = IF "load" \in pendingEffects
                   THEN LoadEffect(queue, "SecurityError").queue
                   ELSE queue]_vars

\* C14 amended: no failure of a durable read or write is propagated, and the
\* in-memory outcome of every flush of the effects is the same whether the
\* save succeeds or fails: the committed collection and the has() results
\* are unchanged, and what the load hands to setWatchlistItems depends on
\* the read alone, the empty collection when the read fails.
C14_SaveFailureHarmless ==
  [][FlushStep =>
       /\ phase' # "crashed"
       /\ watchlistItems' = watchlistItems
       /\ \A id \in IdInputs : isInWatchlist(id)' = isInWatchlist(id)
       /\ queue' = IF "load" \in pendingEffects
                   THEN Append(queue,
                          SetUpdate(IF available /\ ConformingArray(localStorage[STORAGE_KEY])
                                    THEN ParsedItems(localStorage[STORAGE_KEY].val)
                                    ELSE <<>>, "load"))
                   ELSE queue]_vars

\* C14 witness: hydrated in a session whose host denies localStorage, the
\* save of a collection of two items has failed and has("1") is true
C14_Witness ==
  /\ phase = "hydrated"
  /\ pendingEffects = {}
  /\ ~available
  /\ lastSave = "SecurityError"
  /\ console = <<SaveError>>
  /\ Len(watchlistItems) = 2
  /\ isInWatchlist(JNum(1))

\* The messages saveWatchlist logged in the flush that ends in this step
SaveReports == SelectSeq(console', LAMBDA m : m \in {QuotaError, SaveError})

\* C15: every failed save is reported exactly once and never rethrown: as
\* QuotaExceeded when the write fails because the store is full, as
\* PersistenceUnavailable when the store is denied or the collection does
\* not serialize; a save that succeeds reports nothing.
C15_SaveFailureClassified ==
  [][FlushStep =>
       /\ phase' # "crashed"
       /\ SaveReports =
            IF ~Serializable(watchlistItems) \/ ~available THEN <<SaveError>>
            ELSE IF Len(watchlistItems) > Quota THEN <<QuotaError>>
            ELSE <<>>]_vars

\* C15 witness: the save of more items than the store has room for has
\* failed and was reported as a full store
C15_Witness ==
  /\ phase = "hydrated"
  /\ pendingEffects = {}
  /\ available
  /\ Len(watchlistItems) > Quota
  /\ lastSave = "QuotaExceededError"
  /\ console = <<QuotaError>>

\* The save of a collection that JSON.stringify rejects has failed and was
\* reported as a failure to save
C15_SerializationReported ==
  /\ available
  /\ ~Serializable(watchlistItems)
  /\ lastSave = "TypeError"
  /\ console = <<SaveError>>

\* A collection that passes validate
ValidCollection(items) ==
  \A i \in 1..Len(items) : Conforms(JObj(items[i]))

\* C16: round trip. The collection a settled session saved, if it passes
\* validate, is returned by the load() of the next session exactly, same
\* items, same field values, same order; and saving what load() returned
\* for a valid content writes that content back unchanged.
C16_RoundTrip ==
  [][/\ (LoadStep /\ available /\ prevSession.settled
          /\ ValidCollection(prevSession.items))
        => SameCollection(Loaded.value, prevSession.items)
     /\ (FlushStep /\ phase = "hydrated" /\ available
          /\ ConformingArray(readText)
          /\ watchlistItems = ParsedItems(readText.val)
          /\ Len(watchlistItems) <= Quota)
        => localStorage'[STORAGE_KEY] = readText]_vars

\* C16 witness: the previous session saved two valid items, "1" added in
\* front of "42"; this session's load() has read them back and handed them
\* to setWatchlistItems
C16_Witness ==
  /\ phase = "loading"
  /\ prevSession.settled
  /\ Len(prevSession.items) = 2
  /\ ValidCollection(prevSession.items)
  /\ prevSession.items[1].id = JStr("1")
  /\ prevSession.items[2].id = JStr("42")
  /\ readText = JSONstringify(prevSession.items)
  /\ Len(queue) = 1
  /\ SameCollection(queue[1].value, prevSession.items)

\* The step is a call of addToWatchlist(movie) that enqueued its new item
AddStep(movie) ==
  /\ Len(queue') = Len(queue) + 1
  /\ queue'[Len(queue')].op = "prepend"
  /\ queue'[Len(queue')].item = NewItem(movie, now)

\* The item the step enqueued
Added == queue'[Len(queue')].item

\* A field of the candidate that holds a non-empty string
NonEmpty(movie, f) ==
  f \in DOMAIN movie /\ movie[f].type = "string" /\ movie[f].s # ""

\* The normalized title: original_title if non-empty, else name, else the
\* raw title, else the empty string
NormalizedTitle(movie) ==
  IF NonEmpty(movie, "original_title") THEN movie["original_title"]
  ELSE IF NonEmpty(movie, "name") THEN movie["name"]
  ELSE IF "title" \in DOMAIN movie THEN movie["title"]
  ELSE JStr("")

\* C17: the title of every item constructed by add is a string: the
\* candidate's original_title if non-empty, else its name, else its raw
\* title, else the empty string.
C17_TitleNormalized ==
  [][\A movie \in Movies :
       AddStep(movie) =>
         /\ Added.title.type = "string"
         /\ Added.title = NormalizedTitle(movie)]_vars

\* C18: every item of the in-memory collection has a category that is
\* exactly "movie" or "tv", whatever candidates were passed to add.
C18_CategoryEnum ==
  \A i \in 1..Len(watchlistItems) :
    Get(watchlistItems[i], "category") \in {JStr("movie"), JStr("tv")}

\* The ids the queued remove calls name
RemovedIds == {queue[i].id : i \in {j \in 1..Len(queue) : queue[j].op = "filter"}}

\* The committed items no queued remove call names
Kept == SelectSeq(watchlistItems, LAMBDA item : Get(item, "id") \notin RemovedIds)

LoadUpdates(q) == {i \in 1..Len(q) : q[i].op = "set" /\ q[i].by = "load"}

\* C20: hydration runs exactly once per process lifetime. load() is called
\* in the flush after mount and in no other one; from then until the
\* hydrating render exactly one result of load() is queued, and that render
\* replaces the collection by it, applying only the updates queued behind
\* it; once hydrated no result of load() is queued again; and every process
\* gets hydrated.
C20_HydratesOnce ==
  /\ [][/\ LoadStep <=> (FlushStep /\ phase = "mounting")
        /\ Cardinality(LoadUpdates(queue')) =
             IF phase' = "loading" THEN 1 ELSE 0
        /\ (RenderStep /\ phase = "loading")
             => \E i \in LoadUpdates(queue) :
                  /\ phase' = "hydrated"
                  /\ watchlistItems' =
                       ApplyQueue(queue[i].value, SubSeq(queue, i + 1, Len(queue)))
        /\ phase = "hydrated" => phase' = "hydrated"]_vars
  /\ <>(phase = "hydrated")

\* C20 witness: hydrated from the payload of two items, which was then
\* saved; no load is scheduled or queued
C20_Witness ==
  /\ phase = "hydrated"
  /\ pendingEffects = {}
  /\ queue = <<>>
  /\ lastSave = "ok"
  /\ readText = NotRead
  /\ watchlistItems = ParsedItems(ValidPayload.val)

\* The collection the calls made since the last commit leave: what the
\* next render will commit
Pending == ApplyQueue(watchlistItems, queue)

\* C21: back-to-back calls give what they give applied one at a time, each
\* to the collection the previous one left. remove and clear are applied to
\* that collection by the render; add decides whether to insert when it is
\* called, so on a hydrated store every add must find the id present exactly
\* when it is present in the collection the previous calls left: after
\* remove(x), add(x) inserts x.
C21_OneAtATime ==
  phase = "hydrated" =>
    \A movie \in Movies :
      SomeId(watchlistItems, String(Get(movie, "id")))
        = SomeId(Pending, String(Get(movie, "id")))

\* The step is a call of addToWatchlist, removeFromWatchlist or
\* clearWatchlist that handed an update to setWatchlistItems
CallStep ==
  /\ pendingEffects' = pendingEffects
  /\ Len(queue') = Len(queue) + 1

\* C22: every mutation is visible before the mutating call returns: right
\* after add(c) the snapshot holds an item of c's id, right after remove(id)
\* it holds none, and right after clear() it is empty.
C22_VisibleOnReturn ==
  [][CallStep =>
       LET u == queue'[Len(queue')]
       IN CASE u.op = "prepend" -> SomeId(watchlistItems', u.item.id)
            [] u.op = "filter" -> ~SomeId(watchlistItems', u.id)
            [] u.op = "set" -> watchlistItems' = <<>>]_vars

\* C23: start-up loses nothing. When load() has read a valid collection C
\* and no mutation was made, the hydrating render commits C, and the flush
\* of the effects that follows leaves C in memory and C in the durable
\* store.
C23_StartupKeepsCollection ==
  [][/\ (RenderStep /\ phase = "loading" /\ ConformingArray(readText)
          /\ Len(queue) = 1)
        => SameCollection(watchlistItems', ParsedItems(readText.val))
     /\ (FlushStep /\ phase = "hydrated" /\ available
          /\ ConformingArray(readText) /\ queue = <<>>
          /\ SameCollection(watchlistItems, ParsedItems(readText.val)))
        => /\ watchlistItems' = watchlistItems
           /\ StoreHolds(localStorage', ParsedItems(readText.val))]_vars

\* C23 witness: started on the payload of two items, no update was queued
\* since; the effects have settled with the two items in memory and in
\* localStorage
C23_Witness ==
  /\ Settled
  /\ reloads = 0
  /\ watchlistItems = ParsedItems(ValidPayload.val)
  /\ localStorage[STORAGE_KEY] = ValidPayload

\* C24: every collection the save effect writes passes the validation of
\* the next session's load(): the text a flush leaves under the key is an
\* array whose elements all have a string id, a category "movie" or "tv"
\* and a string title.
C24_WrittenPassesValidate ==
  [][(FlushStep /\ localStorage' # localStorage)
       => ConformingArray(localStorage'[STORAGE_KEY])]_vars

\* C25: a session started on a corrupt payload hydrates to the empty
\* collection when no call was made meanwhile; whenever its effects have
\* settled with a successful write the store holds the collection in
\* memory, which is the text "[]" while the collection is empty, so the
\* corrupt payload is gone and later mutations are persisted.
C25_CorruptReplaced ==
  /\ [][(RenderStep /\ phase = "loading" /\ Len(queue) = 1)
          => watchlistItems' = <<>>]_vars
  /\ [](Settled =>
          /\ StoreHolds(localStorage, watchlistItems)
          /\ watchlistItems = <<>>
               => localStorage[STORAGE_KEY] = JsonText(JArr(<<>>)))

\* C25 witness: getItem gave a text that does not parse, the hydrating
\* render has committed the empty collection, and the store holds "[]" in
\* place of that text
C25_Witness ==
  /\ readText = Garbage
  /\ phase = "hydrated"
  /\ watchlistItems = <<>>
  /\ lastSave = "ok"
  /\ localStorage[STORAGE_KEY] = JsonText(JArr(<<>>))

\* C26: hydration discards no accepted add. The render that commits the
\* result of load() leaves in the collection every item an earlier call
\* of addToWatchlist of this session handed to setWatchlistItems, unless
\* a later call removed it or cleared the collection.
C26_AddSurvivesHydration ==
  [][(RenderStep /\ phase = "loading") =>
       \A i \in 1..Len(queue) :
         (/\ queue[i].op = "prepend"
          /\ \A j \in (i + 1)..Len(queue) :
               /\ queue[j].op # "filter"
               /\ queue[j].op = "set" => queue[j].by = "load")
         => SomeId(watchlistItems', queue[i].item.id)]_vars

\* C27: only the key "tmovies_watchlist" is touched. No step changes
\* another key of localStorage; a step that is not a flush of the effects
\* (a handler call, a render with its isInWatchlist, a reload) writes
\* nothing; and a flush, whether or not the load effect runs in it,
\* changes at most that key, to the text of the rendered collection.
C27_OnlyTheKey ==
  [][/\ DOMAIN localStorage' = DOMAIN localStorage
     /\ localStorage'[OTHER_KEY] = localStorage[OTHER_KEY]
     /\ ~FlushStep => localStorage' = localStorage
     /\ FlushStep =>
          localStorage' \in
            { localStorage,
              [localStorage EXCEPT ![STORAGE_KEY] = JSONstringify(watchlistItems)] }]_vars

\* C27 witness: the save effect has written a collection of two items
\* under the key, and the other key still holds its text
C27_Witness ==
  /\ lastSave = "ok"
  /\ Len(watchlistItems) = 2
  /\ localStorage[STORAGE_KEY] = JSONstringify(watchlistItems)
  /\ localStorage[OTHER_KEY] = OtherText

\* The update is one a click queued: the prepend of addToWatchlist or the
\* filter of removeFromWatchlist
ClickUpdate(u) == u.op \in {"prepend", "filter"}

\* The id of the movie of the button that queued the update
ClickedId(u) == IF u.op = "prepend" THEN u.item.id ELSE u.id

\* C28: the button toggles membership. When one click, and no other call,
\* was made since the last render, the render that follows commits a
\* collection in which isInWatchlist(movie.id) is the negation of what it
\* was when the button was drawn; two clicks with a render between them
\* therefore restore the membership.
C28_ClickToggles ==
  [][RenderStep =>
       \A i \in 1..Len(queue) :
         (/\ ClickUpdate(queue[i])
          /\ \A j \in 1..Len(queue) :
               j # i => queue[j].op = "set" /\ queue[j].by = "load")
         => SomeId(watchlistItems', ClickedId(queue[i]))
              = ~SomeId(watchlistItems, ClickedId(queue[i]))]_vars

====
